---- MODULE Spec2Model ----
(***************************************************************************)
(* Model of src/app.py: the "Voice Autocomplete Scraper".                  *)
(*                                                                         *)
(* A Python str is modelled as a sequence of one-character strings, so     *)
(* that f-string concatenation, str.split, str.strip and str.join are      *)
(* computed and not assumed.  "ok" is <<"o", "k">>.                        *)
(***************************************************************************)
EXTENDS Naturals, Sequences, FiniteSets

VARIABLES
    seeds_input,      \* the text of the "Seeds (one per line)" text area
    pc,               \* position of the script run: idle, seed, variant, done
    outcome,          \* how the button handler ended: none, rejected, returned, raised
    results_df,       \* st.session_state['results_df']
    seeds_list,       \* run_scraper's seeds_list
    opts,             \* the six use_* flags passed to run_scraper
    max_per_variant,  \* the number_input value passed to run_scraper
    seed_idx,         \* 1-based index of the seed the outer loop is at
    variants,         \* the strings of the list generate_variants returned
    walked,           \* the entries of that list "for variant in variants" has
                      \* taken so far, in the list's order (the one a break
                      \* leaves unfetched included)
    count,            \* run_scraper's count
    fetched,          \* the queries handed to fetch_suggestions for this seed
    response,         \* the provider's answer to the latest of them
    all_results,      \* run_scraper's all_results
    seen              \* run_scraper's seen

vars == <<seeds_input, pc, outcome, results_df, seeds_list, opts, max_per_variant,
          seed_idx, variants, walked, count, fetched, response, all_results, seen>>

(***************************************************************************)
(* Bounds of the model.                                                    *)
(***************************************************************************)
MaxLines == 2        \* lines in the seeds text area
MaxCap == 2          \* largest max_per_variant drawn
MaxSuggestions == 2  \* longest suggestion list a response carries
MaxSeedLen == 3      \* longest seed given to generate_variants on its own

(***************************************************************************)
(* Strings.                                                                *)
(***************************************************************************)
SP == <<" ">>
STAR == <<"*">>

\* the characters str.strip() removes that the inputs here can hold
Whitespace == {" ", "\t", "\n"}

\* all strings over chars of length lo..hi
StringsOver(chars, lo, hi) == UNION {[1..n -> chars] : n \in lo..hi}

\* sep.join(words)
RECURSIVE Join(_, _)
Join(words, sep) ==
    IF words = <<>> THEN <<>>
    ELSE IF Len(words) = 1 THEN words[1]
    ELSE words[1] \o sep \o Join(Tail(words), sep)

\* s.split(c) for a one-character separator c
RECURSIVE Split(_, _)
Split(s, c) ==
    IF \A i \in 1..Len(s) : s[i] # c THEN <<s>>
    ELSE LET i == CHOOSE j \in 1..Len(s) :
                     s[j] = c /\ \A k \in 1..(j - 1) : s[k] # c
         IN  <<SubSeq(s, 1, i - 1)>> \o Split(SubSeq(s, i + 1, Len(s)), c)

\* s.strip()
Strip(s) ==
    LET keep == {i \in 1..Len(s) : s[i] \notin Whitespace}
    IN  IF keep = {} THEN <<>>
        ELSE LET lo == CHOOSE i \in keep : \A j \in keep : i <= j
                 hi == CHOOSE i \in keep : \A j \in keep : j <= i
             IN  SubSeq(s, lo, hi)

(***************************************************************************)
(* Constants of the program.                                               *)
(***************************************************************************)
ALPHABET ==
    <<"a", "b", "c", "d", "e", "f", "g", "h", "i", "j", "k", "l", "m",
      "n", "o", "p", "q", "r", "s", "t", "u", "v", "w", "x", "y", "z">>

QUESTION_WORDS ==
    << <<"h","o","w">>, <<"w","h","a","t">>, <<"w","h","y">>, <<"w","h","e","n">>,
       <<"w","h","e","r","e">>, <<"w","h","o">>, <<"w","h","i","c","h">>,
       <<"c","a","n">>, <<"s","h","o","u","l","d">>, <<"w","i","l","l">>,
       <<"d","o">>, <<"d","o","e","s">>, <<"i","s">> >>

\* (a variation: a space between the seed and the question word)
ConnectorsSpace == << <<" ">> >>

CONNECTORS == << <<>> >>

\* the checkbox combinations
Options ==
    [use_letters : BOOLEAN, use_wildcards : BOOLEAN, use_questions : BOOLEAN,
     use_prefix : BOOLEAN, use_infix : BOOLEAN, use_suffix : BOOLEAN]

(***************************************************************************)
(* generate_variants                                                       *)
(***************************************************************************)
\* words = seed.split(' '); the infix templates apply when len(words) > 1
InfixWords(seed) == Split(seed, " ")

\* the strings one pass of "for letter in ALPHABET" adds
LetterVariants(seed, l, o) ==
    LET letter == <<l>>
        words == InfixWords(seed)
        rest == Join(Tail(words), SP)
    IN  (IF o.use_prefix THEN {letter \o SP \o seed} ELSE {})
        \cup (IF o.use_suffix THEN {seed \o SP \o letter} ELSE {})
        \cup (IF o.use_infix /\ Len(words) > 1
              THEN {words[1] \o SP \o letter \o SP \o rest} ELSE {})
        \cup (IF o.use_wildcards /\ o.use_suffix
              THEN {seed \o STAR \o letter, seed \o SP \o letter \o STAR} ELSE {})
        \cup (IF o.use_wildcards /\ o.use_prefix
              THEN {letter \o STAR \o seed, letter \o SP \o STAR \o seed} ELSE {})
        \cup (IF o.use_wildcards /\ o.use_infix /\ Len(words) > 1
              THEN {words[1] \o STAR \o letter \o SP \o rest,
                    words[1] \o SP \o letter \o STAR \o rest}
              ELSE {})

\* the strings the "if use_wildcards" block adds
WildcardVariants(seed, o) ==
    LET words == InfixWords(seed)
        rest == Join(Tail(words), SP)
    IN  (IF o.use_prefix THEN {STAR \o SP \o seed} ELSE {})
        \cup (IF o.use_suffix THEN {seed \o SP \o STAR} ELSE {})
        \cup (IF o.use_infix /\ Len(words) > 1
              THEN {words[1] \o SP \o STAR \o SP \o rest} ELSE {})

\* the strings one pass of "for qw in QUESTION_WORDS" adds
QuestionVariants(seed, qw, o) ==
    UNION {(IF o.use_prefix THEN {qw \o CONNECTORS[c] \o seed} ELSE {})
           \cup (IF o.use_suffix THEN {seed \o CONNECTORS[c] \o qw} ELSE {})
              : c \in 1..Len(CONNECTORS)}
    \cup (IF o.use_wildcards /\ o.use_suffix
          THEN {seed \o STAR \o qw, seed \o SP \o qw \o STAR} ELSE {})
    \cup (IF o.use_wildcards /\ o.use_prefix
          THEN {qw \o STAR \o seed, qw \o SP \o STAR \o seed} ELSE {})

\* the set `variants` when generate_variants reaches its return
VariantSet(seed, o) ==
    {seed}
    \cup (IF o.use_letters
          THEN UNION {LetterVariants(seed, ALPHABET[i], o) : i \in 1..Len(ALPHABET)}
          ELSE {})
    \cup (IF o.use_wildcards THEN WildcardVariants(seed, o) ELSE {})
    \cup (IF o.use_questions
          THEN UNION {QuestionVariants(seed, QUESTION_WORDS[i], o) :
                          i \in 1..Len(QUESTION_WORDS)}
          ELSE {})

(***************************************************************************)
(* list(variants): the list holds each string of the set once, in the      *)
(* order the set is iterated in.  Python leaves that order open; CPython   *)
(* takes it from the strings' hashes, which are keyed per process, and     *)
(* from the table's probing.  The model commits to no order: each entry of *)
(* the list is settled when the loop over the list reaches it, as any      *)
(* string of the set the list does not hold yet.                           *)
(***************************************************************************)
Range(s) == {s[i] : i \in 1..Len(s)}

\* the strings that can follow the entries taken so far in list(S)
ListNext(S, taken) == S \ Range(taken)

\* generate_variants as run_scraper sees it: the strings of the returned list
generate_variants(seed, o) == VariantSet(seed, o)

(***************************************************************************)
(* The provider's answer to one GET, and fetch_suggestions.                *)
(*   status: "error" when requests.get or response.json() raises           *)
(*   shape:  the JSON value's type; len: len(data)                         *)
(*   second: the type of data[1]; items: what iterating data[1] yields     *)
(***************************************************************************)
SuggestionPool == {<<"a">>, <<"|", "a">>}

SuggestionLists == StringsOver(SuggestionPool, 0, MaxSuggestions)

Response(status, shape, len, second, items) ==
    [status |-> status, shape |-> shape, len |-> len, second |-> second, items |-> items]

Responses ==
    {Response("error", "none", 0, "none", <<>>)}
    \cup {Response("ok", "array", n, "none", <<>>) : n \in {0, 1}}
    \cup {Response("ok", "array", 2, "list", l) : l \in SuggestionLists}
    \cup {Response("ok", "array", 2, t, <<>>) : t \in {"null", "number"}}
    \cup {Response("ok", "array", 2, "str", <<s>>) : s \in SuggestionPool}
    \cup {Response("ok", "object", n, "none", <<>>) : n \in {0, 2}}
    \cup {Response("ok", "null", 0, "none", <<>>)}

Value(t, items) == [t |-> t, items |-> items]

\* for x in "ab" yields "a", "b"
CharsOf(s) == [i \in 1..Len(s) |-> <<s[i]>>]

fetch_suggestions(resp) ==
    IF resp.status = "error" THEN Value("list", <<>>)          \* except: return []
    ELSE IF resp.shape = "null" THEN Value("list", <<>>)       \* len(None): TypeError
    ELSE IF resp.len > 1
         THEN IF resp.shape = "object" THEN Value("list", <<>>)  \* data[1]: KeyError
              ELSE IF resp.second = "str" THEN Value("str", CharsOf(resp.items[1]))
              ELSE Value(resp.second, resp.items)
         ELSE Value("list", <<>>)

\* whether "for suggestion in suggestions" can iterate the value
Iterable(v) == v.t \in {"list", "str"}

\* the answers the provider's contract names: a failed request, or an array whose
\* element 1, if present, is a list of suggestion strings
ListedResponses ==
    {r \in Responses :
        \/ r.status = "error"
        \/ r.shape = "array" /\ (r.len < 2 \/ r.second = "list")}

NoResponse == Response("none", "none", 0, "none", <<>>)

(***************************************************************************)
(* run_scraper's inner "for suggestion in suggestions" loop.               *)
(***************************************************************************)
Key(seed, suggestion) == seed \o <<"|", "|", "|">> \o suggestion

Row(seed, variant, suggestion) ==
    [seed |-> seed, variant |-> variant, query_sent |-> variant, suggestion |-> suggestion]

\* (a variation: rows appended without the "key not in seen" test)
RECURSIVE CollectAll(_, _, _, _, _)
CollectAll(items, seed, variant, rows, keys) ==
    IF items = <<>> THEN <<rows, keys>>
    ELSE CollectAll(Tail(items), seed, variant,
                    Append(rows, Row(seed, variant, items[1])),
                    keys \cup {Key(seed, items[1])})

\* <<all_results, seen>> after the loop over items
RECURSIVE Collect(_, _, _, _, _)
Collect(items, seed, variant, rows, keys) ==
    IF items = <<>> THEN <<rows, keys>>
    ELSE LET key == Key(seed, items[1])
         IN  IF key \notin keys
             THEN Collect(Tail(items), seed, variant,
                          Append(rows, Row(seed, variant, items[1])), keys \cup {key})
             ELSE Collect(Tail(items), seed, variant, rows, keys)

(***************************************************************************)
(* The button handler's input.                                             *)
(***************************************************************************)
InputLines == {<<>>, <<" ">>, <<" ", "a">>, <<"a", "|">>}

SeedInputs ==
    {Join(ls, <<"\n">>) : ls \in StringsOver(InputLines, 1, MaxLines)}

\* (a variation: the comprehension without its "if s.strip()")
ParseSeedsKeepBlank(text) ==
    LET lines == Split(text, "\n")
    IN  [i \in 1..Len(lines) |-> Strip(lines[i])]

\* [s.strip() for s in seeds_input.split('\n') if s.strip()]
ParseSeeds(text) ==
    LET lines == Split(text, "\n")
        stripped == [i \in 1..Len(lines) |-> Strip(lines[i])]
    IN  SelectSeq(stripped, LAMBDA s : s # <<>>)

NoResult == [present |-> FALSE, rows |-> <<>>]

\* a result an earlier run of the session stored
PriorResult == [present |-> TRUE, rows |-> <<Row(<<"a">>, <<"a">>, <<"a">>)>>]

NoOptions ==
    [use_letters |-> FALSE, use_wildcards |-> FALSE, use_questions |-> FALSE,
     use_prefix |-> FALSE, use_infix |-> FALSE, use_suffix |-> FALSE]

\* the checkbox settings a whole run is explored under; generate_variants is
\* explored under every setting in GenSpec
RunOptions ==
    {NoOptions,
     [NoOptions EXCEPT !.use_wildcards = TRUE, !.use_suffix = TRUE],
     [NoOptions EXCEPT !.use_wildcards = TRUE, !.use_prefix = TRUE, !.use_suffix = TRUE]}

(***************************************************************************)
(* The script run.                                                         *)
(***************************************************************************)
Init ==
    /\ seeds_input = <<>>
    /\ pc = "idle"
    /\ outcome = "none"
    /\ results_df \in {NoResult, PriorResult}
    /\ seeds_list = <<>>
    /\ opts = NoOptions
    /\ max_per_variant = 1
    /\ seed_idx = 0
    /\ variants = {}
    /\ walked = <<>>
    /\ count = 0
    /\ fetched = <<>>
    /\ response = NoResponse
    /\ all_results = <<>>
    /\ seen = {}

\* if st.button(...): parse the seeds, reject an empty list, else enter run_scraper
Click ==
    /\ pc = "idle"
    /\ \E text \in SeedInputs, o \in RunOptions, m \in 1..MaxCap :
          LET sl == ParseSeeds(text)
          IN  /\ seeds_input' = text
              /\ IF sl = <<>>
                 THEN \* st.error(...): run_scraper is not called
                      /\ pc' = "done"
                      /\ outcome' = "rejected"
                      /\ UNCHANGED <<seeds_list, opts, max_per_variant, seed_idx>>
                 ELSE /\ pc' = "seed"
                      /\ outcome' = "none"
                      /\ seeds_list' = sl
                      /\ opts' = o
                      /\ max_per_variant' = m
                      /\ seed_idx' = 1
    /\ UNCHANGED <<results_df, variants, walked, count, fetched, response,
                   all_results, seen>>

\* for seed_idx, seed in enumerate(seeds_list): variants = generate_variants(...); count = 0
BeginSeed ==
    /\ pc = "seed"
    /\ seed_idx <= Len(seeds_list)
    /\ variants' = generate_variants(seeds_list[seed_idx], opts)
    /\ walked' = <<>>
    /\ count' = 0
    /\ fetched' = <<>>
    /\ pc' = "variant"
    /\ UNCHANGED <<seeds_input, outcome, results_df, seeds_list, opts,
                   max_per_variant, seed_idx, response, all_results, seen>>

\* (a variation: a failed request is tried again, the loop and count staying
\* where they are)
FetchRetry(answers) ==
    /\ pc = "variant"
    /\ count < max_per_variant
    /\ LET again == fetched # <<>> /\ response.status = "error"
       IN  /\ again \/ Len(walked) < Cardinality(variants)
           /\ \E resp \in answers,
                 variant \in IF again THEN {fetched[Len(fetched)]}
                             ELSE ListNext(variants, walked) :
                 LET seed == seeds_list[seed_idx]
                     suggestions == fetch_suggestions(resp)
                     got == Collect(suggestions.items, seed, variant, all_results, seen)
                 IN  /\ Iterable(suggestions)
                     /\ walked' = IF again THEN walked ELSE Append(walked, variant)
                     /\ fetched' = Append(fetched, variant)
                     /\ response' = resp
                     /\ all_results' = got[1]
                     /\ seen' = got[2]
                     /\ count' = IF resp.status = "error" THEN count ELSE count + 1
    /\ UNCHANGED <<seeds_input, pc, outcome, results_df, seeds_list, opts,
                   max_per_variant, seed_idx, variants>>

\* one pass of "for variant in variants" that gets past the cap test
Fetch(answers) ==
    /\ pc = "variant"
    /\ Len(walked) < Cardinality(variants)
    /\ count < max_per_variant
    /\ \E resp \in answers, variant \in ListNext(variants, walked) :
          LET seed == seeds_list[seed_idx]
              suggestions == fetch_suggestions(resp)
          IN  /\ walked' = Append(walked, variant)
              /\ fetched' = Append(fetched, variant)
              /\ response' = resp
              /\ IF Iterable(suggestions)
                 THEN LET got == Collect(suggestions.items, seed, variant, all_results, seen)
                      IN  /\ all_results' = got[1]
                          /\ seen' = got[2]
                          /\ count' = count + 1
                          /\ UNCHANGED <<pc, outcome>>
                 ELSE \* TypeError leaves run_scraper and ends the script run
                      /\ pc' = "done"
                      /\ outcome' = "raised"
                      /\ UNCHANGED <<all_results, seen, count>>
    /\ UNCHANGED <<seeds_input, results_df, seeds_list, opts, max_per_variant,
                   seed_idx, variants>>

FetchAny == Fetch(Responses)

FetchListed == Fetch(ListedResponses)

\* the inner loop ends: the list is exhausted, or the for statement takes the
\* next entry and "if count >= max_per_variant: break" leaves the loop with it
EndSeed ==
    /\ pc = "variant"
    /\ \/ /\ Len(walked) >= Cardinality(variants)
          /\ walked' = walked
       \/ /\ Len(walked) < Cardinality(variants)
          /\ count >= max_per_variant
          /\ \E variant \in ListNext(variants, walked) : walked' = Append(walked, variant)
    /\ seed_idx' = seed_idx + 1
    /\ pc' = "seed"
    /\ UNCHANGED <<seeds_input, outcome, results_df, seeds_list, opts, max_per_variant,
                   variants, count, fetched, response, all_results, seen>>

\* return pd.DataFrame(all_results); if not df.empty: session_state['results_df'] = df
Return ==
    /\ pc = "seed"
    /\ seed_idx > Len(seeds_list)
    /\ results_df' = IF all_results # <<>>
                     THEN [present |-> TRUE, rows |-> all_results]
                     ELSE results_df
    /\ outcome' = "returned"
    /\ pc' = "done"
    /\ UNCHANGED <<seeds_input, seeds_list, opts, max_per_variant, seed_idx,
                   variants, walked, count, fetched, response, all_results, seen>>

Next == Click \/ BeginSeed \/ FetchAny \/ EndSeed \/ Return

Spec == Init /\ [][Next]_vars

(***************************************************************************)
(* generate_variants on its own: run_scraper entered with one seed.        *)
(***************************************************************************)
GenChars == {"o", "k", " ", "\t"}

\* the seeds the handler can pass on: non-empty and stripped
GenSeeds == {s \in StringsOver(GenChars, 1, MaxSeedLen) : Strip(s) = s}

InitGen ==
    /\ seeds_input \in {<<>>}
    /\ pc = "seed"
    /\ outcome = "none"
    /\ results_df = NoResult
    /\ seeds_list \in {<<s>> : s \in GenSeeds}
    /\ opts \in Options
    /\ max_per_variant = 1
    /\ seed_idx = 1
    /\ variants = {}
    /\ walked = <<>>
    /\ count = 0
    /\ fetched = <<>>
    /\ response = NoResponse
    /\ all_results = <<>>
    /\ seen = {}

GenSpec == InitGen /\ [][BeginSeed]_vars

(***************************************************************************)
(* The run under a provider that keeps to its contract, with the script    *)
(* run to its end: Streamlit executes the handler sequentially, so a step  *)
(* of run_scraper that can be taken is taken.                              *)
(***************************************************************************)
Run == BeginSeed \/ FetchListed \/ EndSeed \/ Return

NextListed == Click \/ Run

NominalSpec == Init /\ [][NextListed]_vars /\ WF_vars(Run)

(***************************************************************************)
(* Properties.                                                             *)
(***************************************************************************)
Min(a, b) == IF a <= b THEN a ELSE b

\* s.split(): the whitespace-separated words of s
RECURSIVE WordsOf(_)
WordsOf(s) ==
    LET t == Strip(s)
    IN  IF t = <<>> THEN <<>>
        ELSE IF \A i \in 1..Len(t) : t[i] \notin Whitespace THEN <<t>>
        ELSE LET i == CHOOSE j \in 1..Len(t) :
                         t[j] \in Whitespace /\ \A k \in 1..(j - 1) : t[k] \notin Whitespace
             IN  <<SubSeq(t, 1, i - 1)>> \o WordsOf(SubSeq(t, i + 1, Len(t)))

NoDup(s) == \A i, j \in 1..Len(s) : i < j => s[i] # s[j]

NoDupPairs(rows) ==
    \A i, j \in 1..Len(rows) :
        i < j => ~(rows[i].seed = rows[j].seed /\ rows[i].suggestion = rows[j].suggestion)

\* a step that hands one more query to fetch_suggestions
FetchStep == Len(fetched') = Len(fetched) + 1

\* the seed the run is at
CurrentSeed == seeds_list[seed_idx]

\* C1: for every seed, cap and option setting, the number of fetch_suggestions
\* calls run_scraper issues for the seed is exactly
\* min(|generate_variants(seed)|, max_per_variant).  Stated of every seed the run
\* is through with: it moved on to the next seed, returned, or raised.
C1_FetchesEqualCap ==
    LET through == \/ pc = "seed" /\ seed_idx > 1
                   \/ pc = "done" /\ outcome \in {"returned", "raised"}
        seed == IF outcome = "raised" THEN seeds_list[seed_idx] ELSE seeds_list[seed_idx - 1]
    IN  through =>
            /\ Len(fetched) = Min(Cardinality(VariantSet(seed, opts)), max_per_variant)
            /\ Len(fetched) <= max_per_variant

\* C2: at every point of a run and in the stored result, no two rows have the
\* same (seed, suggestion) pair, whatever the provider answers.
C2_NoDuplicateRows == NoDupPairs(all_results) /\ NoDupPairs(results_df.rows)

\* C2 witness: the second variant of a seed answers with one suggestion twice,
\* the one the first variant had found; the row is still there once.
C2_Witness ==
    /\ pc = "variant"
    /\ count = 2
    /\ response.second = "list"
    /\ Len(response.items) = 2
    /\ response.items[1] = response.items[2]
    /\ Len(all_results) = 1
    /\ all_results[1].suggestion = response.items[1]
    /\ all_results[1].variant = fetched[1]
    /\ fetched[1] # fetched[2]

\* C3: when the request for a variant fails, fetch_suggestions yields [], nothing
\* is raised, the rows collected stay as they are and the loop moves to the next
\* variant; and after a failed request the run goes on, no error leaving
\* run_scraper.
C3_FailOpen ==
    /\ [][(FetchStep /\ response'.status = "error") =>
              /\ fetch_suggestions(response') = Value("list", <<>>)
              /\ all_results' = all_results
              /\ seen' = seen
              /\ outcome' = "none"
              /\ pc' = "variant"
              /\ count' = count + 1]_vars
    /\ [][(fetched # <<>> /\ response.status = "error") => outcome' # "raised"]_vars

\* C4: the first query fetched for a seed is the seed itself.
C4_SeedIsVariantZero ==
    (pc = "variant" /\ fetched # <<>>) => fetched[1] = CurrentSeed

\* C5: a response of any shape other than an array whose element 1 is a list of
\* suggestion strings adds no rows and lets no error leave run_scraper.
C5_OtherShapeIsEmpty ==
    [][(/\ FetchStep
        /\ response'.status = "ok"
        /\ ~(response'.shape = "array" /\ response'.len > 1 /\ response'.second = "list"))
       => (all_results' = all_results /\ outcome' # "raised")]_vars

\* every character of the text is whitespace: no line holds a seed
AllBlank(text) == \A i \in 1..Len(text) : text[i] \in Whitespace

\* non-empty, and each seed non-empty and stripped
ValidSeeds(sl) == sl # <<>> /\ \A i \in 1..Len(sl) : sl[i] # <<>> /\ Strip(sl[i]) = sl[i]

\* C6: a seed input with no seed after blank and whitespace-only lines are
\* discarded is rejected: run_scraper is not entered, nothing is fetched and the
\* stored result stays; run_scraper is only entered with a non-empty list of
\* non-empty stripped seeds.
C6_EmptyInputRejected ==
    /\ [][(pc = "idle" /\ pc' # "idle") =>
              IF AllBlank(seeds_input')
              THEN /\ pc' = "done"
                   /\ outcome' = "rejected"
                   /\ results_df' = results_df
                   /\ seeds_list' = <<>>
              ELSE /\ pc' = "seed"
                   /\ ValidSeeds(seeds_list')]_vars
    /\ [](outcome = "rejected" =>
              /\ pc = "done"
              /\ fetched = <<>>
              /\ response = NoResponse
              /\ all_results = <<>>)
    /\ []((pc \in {"seed", "variant"} \/ outcome \in {"returned", "raised"}) =>
              ValidSeeds(seeds_list))

\* C6 witness: a text of blank lines was rejected while an earlier result is stored.
C6_Witness ==
    /\ outcome = "rejected"
    /\ Len(seeds_input) > 1
    /\ results_df = PriorResult

QuestionsAt(position) ==
    [NoOptions EXCEPT !.use_questions = TRUE,
                      !.use_prefix = (position = "prefix"),
                      !.use_suffix = (position = "suffix")]

\* C7: with questions and suffix only, generate_variants gives the seed and, for
\* each of the 13 question words, the seed directly followed by the word: 14
\* strings, none with a space before the word; with prefix in place of suffix,
\* the seed and each word directly followed by the seed.
C7_QuestionWordsNoSeparator ==
    pc = "variant" =>
        LET seed == CurrentSeed
            qs == 1..Len(QUESTION_WORDS)
        IN  /\ Len(QUESTION_WORDS) = 13
            /\ opts = QuestionsAt("suffix") =>
                   /\ variants = {seed} \cup {seed \o QUESTION_WORDS[i] : i \in qs}
                   /\ Cardinality(variants) = 14
                   /\ \A i \in qs : (seed \o SP \o QUESTION_WORDS[i]) \notin variants
            /\ opts = QuestionsAt("prefix") =>
                   /\ variants = {seed} \cup {QUESTION_WORDS[i] \o seed : i \in qs}
                   /\ Cardinality(variants) = 14
                   /\ \A i \in qs : (QUESTION_WORDS[i] \o SP \o seed) \notin variants

\* C7 witness: "o k" with questions and suffix gave "o khow".
C7_Witness ==
    /\ pc = "variant"
    /\ opts = QuestionsAt("suffix")
    /\ CurrentSeed = <<"o", " ", "k">>
    /\ <<"o", " ", "k", "h", "o", "w">> \in variants

\* C8: infix variants are generated exactly when infix is on and the seed has two
\* or more whitespace-separated words: a one-word seed gives the same set with
\* infix on as off, and a seed of two or more words gives "first L rest" for each
\* letter when letters is on and "first * rest" when wildcards is on.
C8_InfixNeedsTwoWords ==
    (pc = "variant" /\ opts.use_infix) =>
        LET seed == CurrentSeed
            words == WordsOf(seed)
            rest == Join(Tail(words), SP)
            off == VariantSet(seed, [opts EXCEPT !.use_infix = FALSE])
        IN  IF Len(words) < 2
            THEN variants = off
            ELSE /\ opts.use_letters =>
                        \A i \in 1..Len(ALPHABET) :
                            (words[1] \o SP \o <<ALPHABET[i]>> \o SP \o rest) \in variants
                 /\ opts.use_wildcards =>
                        (words[1] \o SP \o STAR \o SP \o rest) \in variants

\* C9: under fetch outcomes that are suggestions, an empty list or a failure,
\* run_scraper finishes and returns after one pass over each seed's capped
\* variant list: every fetch moves on to the next variant and no variant is
\* fetched twice for a seed.
C9_SinglePassTerminates ==
    /\ (pc \in {"seed", "variant"}) ~> (pc = "done" /\ outcome = "returned")
    /\ [][FetchStep =>
              /\ fetched'[Len(fetched')] \in variants \ Range(fetched)
              /\ walked' = Append(walked, fetched'[Len(fetched')])
              /\ count' = count + 1]_vars
    /\ [](/\ NoDup(fetched) /\ NoDup(walked)
          /\ Len(fetched) = count /\ count <= max_per_variant
          /\ fetched = SubSeq(walked, 1, Len(fetched))
          /\ Len(walked) <= Len(fetched) + 1
          /\ pc = "variant" => walked = fetched)

\* C9 witness: a run over two seeds with two fetches each returned, its last
\* fetch a failure.
C9_Witness ==
    /\ pc = "done"
    /\ outcome = "returned"
    /\ Len(seeds_list) = 2
    /\ Len(fetched) = 2
    /\ response.status = "error"

\* C10: every suggestion a fetch returns for a seed has a row with that seed and
\* that suggestion; two different (seed, suggestion) pairs never share a key.
C10_EveryPairHasRow ==
    (pc = "variant" /\ fetched # <<>> /\ response.second = "list") =>
        \A s \in Range(response.items) :
            \E i \in 1..Len(all_results) :
                all_results[i].seed = CurrentSeed /\ all_results[i].suggestion = s

====
